---- MODULE Spec2Model ----
(***************************************************************************)
(* A model of src/inventory_system_cleaned.py: the inventory dictionary    *)
(* stock_data, the operations on it (add_item, remove_item, get_qty,       *)
(* check_low_items, print_data) and its JSON persistence (load_data,       *)
(* save_data), run in the order main() runs them: load, a session of       *)
(* mutations and queries, save, reload, report.                            *)
(*                                                                         *)
(* Python values are modelled as follows.                                  *)
(*   str   a sequence of one-character strings ("" is << >>)               *)
(*   int   an integer                                                      *)
(*   a qty argument   [isInt |-> TRUE, n |-> k] for the int k, and         *)
(*         [isInt |-> FALSE, n |-> 0] for a str such as "ten"              *)
(*   dict  a sequence of [item, qty] records with distinct items, in       *)
(*         insertion order (what iterating a Python dict yields)           *)
(*   file  [exists |-> BOOLEAN, text |-> sequence of characters]           *)
(***************************************************************************)
EXTENDS Integers, Sequences, FiniteSets, TLC

VARIABLES stock_data, disk, pc, call, pre, saved, added

vars == <<stock_data, disk, pc, call, pre, saved, added>>

(***************************************************************************)
(* Bounds of the model.                                                    *)
(***************************************************************************)
\* Largest quantity the model lets an entry reach.
MaxQty == 5
\* The model lets an entry go down to -MaxDebt.
MaxDebt == 1
\* qty arguments of add_item and remove_item range over -1 .. MaxArg.
MaxArg == 2

(***************************************************************************)
(* Item names and qty arguments the calls are made with.                   *)
(***************************************************************************)
apple == <<"a", "p", "p", "l", "e">>
banana == <<"b", "a", "n", "a", "n", "a">>
pear == <<"p", "e", "a", "r">>
EmptyName == << >>

\* The names the calls are made with; pear is only ever found in the file.
Names == {apple, banana}
ItemArgs == Names \cup {EmptyName}

IntArg(k) == [isInt |-> TRUE, n |-> k]
\* The str "ten" that main() passes where an int is expected.
StrArg == [isInt |-> FALSE, n |-> 0]
QtyArgs == {IntArg(k) : k \in (-1)..MaxArg} \cup {StrArg}

\* threshold=5 of check_low_items.
DefaultThreshold == 5
\* A call of check_low_items either omits the threshold or passes an int.
Omitted == [given |-> FALSE, n |-> 0]
ThresholdArgs == {Omitted} \cup {[given |-> TRUE, n |-> k] : k \in {0, 2, MaxQty}}

(***************************************************************************)
(* The dict operations the code uses.                                      *)
(***************************************************************************)
Keys(d) == [i \in 1..Len(d) |-> d[i].item]

KeySet(d) == {d[i].item : i \in 1..Len(d)}

\* item in d
Has(d, item) == item \in KeySet(d)

IndexOf(d, item) == CHOOSE i \in 1..Len(d) : d[i].item = item

\* d[item], defined when item is a key (a KeyError otherwise)
Lookup(d, item) == d[IndexOf(d, item)].qty

\* d.get(item, default)
DictGet(d, item, default) == IF Has(d, item) THEN Lookup(d, item) ELSE default

\* d[item] = v: an existing key keeps its place, a new key goes last
SetItem(d, item, v) ==
    IF Has(d, item)
    THEN [d EXCEPT ![IndexOf(d, item)].qty = v]
    ELSE Append(d, [item |-> item, qty |-> v])

\* Faulty variant of DelItem: drops every entry from item on.
DelItemTruncate(d, item) == SubSeq(d, 1, IndexOf(d, item) - 1)

\* del d[item], for item a key
DelItem(d, item) ==
    LET i == IndexOf(d, item)
    IN  SubSeq(d, 1, i - 1) \o SubSeq(d, i + 1, Len(d))

EmptyDict == << >>

(***************************************************************************)
(* json.dumps(stock_data, indent=4) for a dict of str keys and int values. *)
(***************************************************************************)
DigitChars == <<"0", "1", "2", "3", "4", "5", "6", "7", "8", "9">>

RECURSIVE Digits(_)
Digits(n) ==
    IF n < 10 THEN <<DigitChars[n + 1]>>
    ELSE Digits(n \div 10) \o <<DigitChars[(n % 10) + 1]>>

\* int.__repr__
IntToText(n) == IF n < 0 THEN <<"-">> \o Digits(-n) ELSE Digits(n)

\* Faulty variant of EncodeChar: no character is escaped.
EncodeCharRaw(c) == <<c>>

\* One character of a str, as the JSON string encoder writes it.
EncodeChar(c) ==
    CASE c = "\"" -> <<"\\", "\"">>
      [] c = "\\" -> <<"\\", "\\">>
      [] c = "\n" -> <<"\\", "n">>
      [] c = "\t" -> <<"\\", "t">>
      [] OTHER -> <<c>>

RECURSIVE EncodeChars(_)
EncodeChars(s) ==
    IF s = << >> THEN << >> ELSE EncodeChar(Head(s)) \o EncodeChars(Tail(s))

EncodeString(s) == <<"\"">> \o EncodeChars(s) \o <<"\"">>

\* indent=4: each member on a line of its own behind four spaces
Indent == <<" ", " ", " ", " ">>

EncodeMember(e) ==
    Indent \o EncodeString(e.item) \o <<":", " ">> \o IntToText(e.qty)

RECURSIVE EncodeMembers(_)
EncodeMembers(d) ==
    IF Len(d) = 1 THEN EncodeMember(d[1])
    ELSE EncodeMember(d[1]) \o <<",", "\n">> \o EncodeMembers(Tail(d))

Dumps(d) ==
    IF d = << >> THEN <<"{", "}">>
    ELSE <<"{", "\n">> \o EncodeMembers(d) \o <<"\n", "}">>

(***************************************************************************)
(* json.loads(text), for texts that are either no JSON at all or a JSON    *)
(* object whose values are integers (the files this program writes).       *)
(* Other JSON values (floats, strings, arrays, nested objects, literals)   *)
(* are outside the model: no file of the model holds one.                  *)
(***************************************************************************)
Whitespace == {" ", "\n", "\t", "\r"}

RECURSIVE SkipWs(_, _)
SkipWs(t, i) ==
    IF i <= Len(t) /\ t[i] \in Whitespace THEN SkipWs(t, i + 1) ELSE i

NoString == [ok |-> FALSE, val |-> << >>, next |-> 0]

\* The character a backslash escape stands for.
Unescape(c) ==
    CASE c = "n" -> "\n"
      [] c = "t" -> "\t"
      [] c = "r" -> "\r"
      [] OTHER -> c

\* scanstring: from position i, just behind the opening quote
RECURSIVE ScanString(_, _, _)
ScanString(t, i, acc) ==
    IF i > Len(t) THEN NoString
    ELSE IF t[i] = "\"" THEN [ok |-> TRUE, val |-> acc, next |-> i + 1]
    ELSE IF t[i] = "\\"
         THEN IF i + 1 <= Len(t) /\ t[i + 1] \in {"\"", "\\", "/", "n", "t", "r"}
              THEN ScanString(t, i + 2, Append(acc, Unescape(t[i + 1])))
              ELSE NoString
    ELSE IF t[i] \in {"\n", "\t", "\r"} THEN NoString
    ELSE ScanString(t, i + 1, Append(acc, t[i]))

NoInt == [ok |-> FALSE, val |-> 0, next |-> 0]

IsDigit(c) == \E k \in 1..10 : DigitChars[k] = c

DigitValue(c) == (CHOOSE k \in 1..10 : DigitChars[k] = c) - 1

RECURSIVE ScanDigits(_, _, _)
ScanDigits(t, i, acc) ==
    IF i <= Len(t) /\ IsDigit(t[i])
    THEN ScanDigits(t, i + 1, 10 * acc + DigitValue(t[i]))
    ELSE [ok |-> TRUE, val |-> acc, next |-> i]

\* NUMBER_RE: -?(0|[1-9][0-9]*), read as an int
ScanNatural(t, i) ==
    IF i > Len(t) \/ ~IsDigit(t[i]) THEN NoInt
    ELSE IF t[i] = "0" THEN [ok |-> TRUE, val |-> 0, next |-> i + 1]
    ELSE ScanDigits(t, i, 0)

ScanInt(t, i) ==
    IF i <= Len(t) /\ t[i] = "-"
    THEN LET r == ScanNatural(t, i + 1)
         IN  IF r.ok THEN [r EXCEPT !.val = -r.val] ELSE NoInt
    ELSE ScanNatural(t, i)

NoObject == [ok |-> FALSE, val |-> << >>, next |-> 0]

\* JSONObject's loop: i is at the opening quote of the next key
RECURSIVE ScanMembers(_, _, _)
ScanMembers(t, i, d) ==
    IF i > Len(t) \/ t[i] # "\"" THEN NoObject
    ELSE LET k == ScanString(t, i + 1, << >>)
             c == SkipWs(t, k.next)
             v == ScanInt(t, SkipWs(t, c + 1))
             e == SkipWs(t, v.next)
         IN  IF ~k.ok THEN NoObject
             ELSE IF c > Len(t) \/ t[c] # ":" THEN NoObject
             ELSE IF ~v.ok THEN NoObject
             ELSE IF e > Len(t) THEN NoObject
             ELSE IF t[e] = "}"
                  THEN [ok |-> TRUE, val |-> SetItem(d, k.val, v.val), next |-> e + 1]
             ELSE IF t[e] = ","
                  THEN ScanMembers(t, SkipWs(t, e + 1), SetItem(d, k.val, v.val))
             ELSE NoObject

\* JSONObject: i is just behind the opening brace
ScanObject(t, i) ==
    LET j == SkipWs(t, i)
    IN  IF j <= Len(t) /\ t[j] = "}"
        THEN [ok |-> TRUE, val |-> EmptyDict, next |-> j + 1]
        ELSE ScanMembers(t, j, EmptyDict)

\* json.loads: ok is FALSE where it raises JSONDecodeError
Loads(t) ==
    LET i == SkipWs(t, 1)
        r == ScanObject(t, i + 1)
    IN  IF i > Len(t) \/ t[i] # "{" THEN NoObject
        ELSE IF ~r.ok THEN NoObject
        ELSE IF SkipWs(t, r.next) # Len(t) + 1 THEN NoObject
        ELSE r

(***************************************************************************)
(* The functions of the module, as functions of their arguments.  Each     *)
(* returns the dict it leaves behind, the exception that leaves it         *)
(* ("none" for a normal return) and the notice it prints.                  *)
(***************************************************************************)
Outcome(d, raised, printed) == [data |-> d, raised |-> raised, printed |-> printed]

\* Faulty variant of add_item: the new quantity replaces the stored one.
add_item_overwrite(d, item, qty) ==
    IF item = EmptyName THEN Outcome(d, "none", "")
    ELSE IF ~qty.isInt THEN Outcome(d, "TypeError", "")
    ELSE Outcome(SetItem(d, item, qty.n), "none", "")

\* Faulty variant of add_item: the empty name is not turned away.
add_item_unchecked(d, item, qty) ==
    IF ~qty.isInt THEN Outcome(d, "TypeError", "")
    ELSE Outcome(SetItem(d, item, DictGet(d, item, 0) + qty.n), "none", "")

\* add_item(stock_data, item, qty), called without a logs list as main() does
add_item(d, item, qty) ==
    IF item = EmptyName THEN Outcome(d, "none", "")
    ELSE IF ~qty.isInt THEN Outcome(d, "TypeError", "")
    ELSE Outcome(SetItem(d, item, DictGet(d, item, 0) + qty.n), "none", "")

\* Faulty variant of remove_item: an entry that reaches 0 is kept.
remove_item_keeps_zero(d, item, qty) ==
    IF ~Has(d, item) THEN Outcome(d, "none", "warning: not in stock")
    ELSE IF ~qty.isInt THEN Outcome(d, "TypeError", "")
    ELSE LET left == SetItem(d, item, Lookup(d, item) - qty.n)
         IN  IF Lookup(left, item) < 0
             THEN Outcome(DelItem(left, item), "none", "")
             ELSE Outcome(left, "none", "")

\* Faulty variant of remove_item: a missing item counts as 0 in stock.
remove_item_get(d, item, qty) ==
    IF ~qty.isInt THEN Outcome(d, "TypeError", "")
    ELSE LET left == SetItem(d, item, DictGet(d, item, 0) - qty.n)
         IN  IF Lookup(left, item) <= 0
             THEN Outcome(DelItem(left, item), "none", "")
             ELSE Outcome(left, "none", "")

\* Faulty variant of remove_item: a bare except, which takes every exception
\* for a missing item.
remove_item_bare_except(d, item, qty) ==
    IF ~Has(d, item) \/ ~qty.isInt THEN Outcome(d, "none", "warning: not in stock")
    ELSE LET left == SetItem(d, item, Lookup(d, item) - qty.n)
         IN  IF Lookup(left, item) <= 0
             THEN Outcome(DelItem(left, item), "none", "")
             ELSE Outcome(left, "none", "")

\* remove_item(stock_data, item, qty)
remove_item(d, item, qty) ==
    IF ~Has(d, item) THEN Outcome(d, "none", "warning: not in stock")
    ELSE IF ~qty.isInt THEN Outcome(d, "TypeError", "")
    ELSE LET left == SetItem(d, item, Lookup(d, item) - qty.n)
         IN  IF Lookup(left, item) <= 0
             THEN Outcome(DelItem(left, item), "none", "")
             ELSE Outcome(left, "none", "")

\* get_qty(stock_data, item)
get_qty(d, item) == IF Has(d, item) THEN Lookup(d, item) ELSE 0

\* Faulty variant of LowItems: a quantity equal to the threshold counts as low.
RECURSIVE LowItemsInclusive(_, _)
LowItemsInclusive(d, threshold) ==
    IF d = << >> THEN << >>
    ELSE IF Head(d).qty <= threshold
         THEN <<Head(d).item>> \o LowItemsInclusive(Tail(d), threshold)
         ELSE LowItemsInclusive(Tail(d), threshold)

\* [i for i in stock_data if stock_data[i] < threshold]
RECURSIVE LowItems(_, _)
LowItems(d, threshold) ==
    IF d = << >> THEN << >>
    ELSE IF Head(d).qty < threshold
         THEN <<Head(d).item>> \o LowItems(Tail(d), threshold)
         ELSE LowItems(Tail(d), threshold)

\* check_low_items(stock_data, threshold=5)
check_low_items(d, threshold) ==
    LowItems(d, IF threshold.given THEN threshold.n ELSE DefaultThreshold)

\* Faulty variant of load_data: JSONDecodeError is not caught.
load_data_uncaught(f) ==
    IF ~f.exists THEN Outcome(EmptyDict, "none", "info: no file")
    ELSE LET r == Loads(f.text)
         IN  IF r.ok THEN Outcome(r.val, "none", "")
             ELSE Outcome(EmptyDict, "JSONDecodeError", "")

\* load_data(): what it returns for the file f
load_data(f) ==
    IF ~f.exists THEN Outcome(EmptyDict, "none", "info: no file")
    ELSE LET r == Loads(f.text)
         IN  IF r.ok THEN Outcome(r.val, "none", "")
             ELSE Outcome(EmptyDict, "none", "error: could not decode")

NoFile == [exists |-> FALSE, text |-> << >>]
File(t) == [exists |-> TRUE, text |-> t]

\* What open() and f.write() can do to the file.
SaveOutcomes == {"written", "open failed", "write failed"}

\* save_data(stock_data): the file it leaves for the file f it finds
save_data(d, f, io) ==
    CASE io = "written" -> [file |-> File(Dumps(d)), raised |-> "none", printed |-> ""]
      [] io = "open failed" ->
            [file |-> f, raised |-> "none", printed |-> "error: could not save"]
      [] OTHER ->
            \* open(file, "w") has emptied the file when the write fails
            [file |-> File(<< >>), raised |-> "none", printed |-> "error: could not save"]

\* print_data(stock_data): the lines between the header and the footer
print_data(d) == [empty |-> d = << >>, lines |-> d]

(***************************************************************************)
(* The program.  pc follows main(): "start" (before load_data), "session"  *)
(* (the calls between the load and the save, here any calls in any order), *)
(* "saved" (after save_data), "reloaded" (after the second load_data) and  *)
(* "done" (after print_data).                                              *)
(*                                                                         *)
(* call is the last call made: its arguments, what it returned, the        *)
(* exception that left it and what it printed; pre is stock_data as that   *)
(* call found it.  saved and added are history variables: the dict the     *)
(* last save_data was given and whether it was written, and per name the   *)
(* sum of the non-negative quantities added since the name was last        *)
(* absent (tracked while nothing else touched the name).                   *)
(***************************************************************************)
NoCall ==
    [op |-> "none", item |-> EmptyName, qty |-> IntArg(0), threshold |-> Omitted,
     ret |-> 0, low |-> << >>, report |-> print_data(EmptyDict),
     raised |-> "none", printed |-> ""]

Untracked == [tracking |-> FALSE, sum |-> 0]
Fresh == [tracking |-> TRUE, sum |-> 0]

\* Tracking starts over for every name that is absent from d.
Restart(d, a) == [n \in DOMAIN a |-> IF Has(d, n) THEN a[n] ELSE Fresh]

InRange(d) == \A i \in 1..Len(d) : d[i].qty \in (-MaxDebt)..MaxQty

\* inventory.json as the program finds it: missing, or left by an earlier run.
InitialFiles == {NoFile, File(Dumps(<<[item |-> pear, qty |-> 2]>>))}

Init ==
    /\ stock_data = EmptyDict
    /\ disk \in InitialFiles
    /\ pc = "start"
    /\ call = NoCall
    /\ pre = EmptyDict
    /\ saved = [ok |-> FALSE, data |-> EmptyDict]
    /\ added = [n \in Names |-> Untracked]

\* stock_data = load_data()
LoadData ==
    /\ pc \in {"start", "saved"}
    /\ LET r == load_data(disk)
       IN  /\ stock_data' = r.data
           /\ call' = [NoCall EXCEPT !.op = "load", !.raised = r.raised,
                                     !.printed = r.printed]
           /\ added' = [n \in Names |-> IF Has(r.data, n) THEN Untracked ELSE Fresh]
    /\ pre' = stock_data
    /\ pc' = IF pc = "start" THEN "session" ELSE "reloaded"
    /\ UNCHANGED <<disk, saved>>

\* add_item(stock_data, item, qty)
AddItem ==
    /\ pc = "session"
    /\ \E item \in ItemArgs, qty \in QtyArgs :
          LET r == add_item(stock_data, item, qty)
          IN  /\ InRange(r.data)
              /\ stock_data' = r.data
              /\ call' = [NoCall EXCEPT !.op = "add", !.item = item, !.qty = qty,
                                        !.raised = r.raised, !.printed = r.printed]
              /\ added' =
                    IF item \notin Names \/ r.raised # "none" THEN added
                    ELSE IF qty.n < 0 THEN [added EXCEPT ![item] = Untracked]
                    ELSE IF ~added[item].tracking THEN added
                    ELSE [added EXCEPT ![item].sum = @ + qty.n]
    /\ pre' = stock_data
    /\ UNCHANGED <<disk, pc, saved>>

\* remove_item(stock_data, item, qty)
RemoveItem ==
    /\ pc = "session"
    /\ \E item \in ItemArgs, qty \in QtyArgs :
          LET r == remove_item(stock_data, item, qty)
          IN  /\ InRange(r.data)
              /\ stock_data' = r.data
              /\ call' = [NoCall EXCEPT !.op = "remove", !.item = item, !.qty = qty,
                                        !.raised = r.raised, !.printed = r.printed]
              /\ added' =
                    IF item \notin Names \/ r.raised # "none" \/ ~Has(stock_data, item)
                    THEN added
                    ELSE Restart(r.data, [added EXCEPT ![item] = Untracked])
    /\ pre' = stock_data
    /\ UNCHANGED <<disk, pc, saved>>

\* get_qty(stock_data, item)
GetQty ==
    /\ pc = "session"
    /\ \E item \in ItemArgs :
          call' = [NoCall EXCEPT !.op = "get", !.item = item,
                                 !.ret = get_qty(stock_data, item)]
    /\ pre' = stock_data
    /\ UNCHANGED <<stock_data, disk, pc, saved, added>>

\* check_low_items(stock_data) and check_low_items(stock_data, threshold)
CheckLowItems ==
    /\ pc = "session"
    /\ \E threshold \in ThresholdArgs :
          call' = [NoCall EXCEPT !.op = "check_low", !.threshold = threshold,
                                 !.low = check_low_items(stock_data, threshold)]
    /\ pre' = stock_data
    /\ UNCHANGED <<stock_data, disk, pc, saved, added>>

\* save_data(stock_data)
SaveData ==
    /\ pc = "session"
    /\ \E io \in SaveOutcomes :
          LET r == save_data(stock_data, disk, io)
          IN  /\ disk' = r.file
              /\ call' = [NoCall EXCEPT !.op = "save", !.raised = r.raised,
                                        !.printed = r.printed]
              /\ saved' = [ok |-> io = "written", data |-> stock_data]
    /\ pre' = stock_data
    /\ pc' = "saved"
    /\ UNCHANGED <<stock_data, added>>

\* print_data(stock_data)
PrintData ==
    /\ pc \in {"session", "reloaded"}
    /\ call' = [NoCall EXCEPT !.op = "print", !.report = print_data(stock_data)]
    /\ pre' = stock_data
    /\ pc' = IF pc = "reloaded" THEN "done" ELSE pc
    /\ UNCHANGED <<stock_data, disk, saved, added>>

Next ==
    \/ LoadData
    \/ AddItem
    \/ RemoveItem
    \/ GetQty
    \/ CheckLowItems
    \/ SaveData
    \/ PrintData

Spec == Init /\ [][Next]_vars

(***************************************************************************)
(* The persistence functions on a wider range of dicts and files: the      *)
(* program as a session has left it (any dict of sample names and          *)
(* quantities, any file), then save, reload, report.                       *)
(***************************************************************************)
\* Dicts of the samples have at most MaxEntries entries.
MaxEntries == 2

\* A name with the characters the JSON encoder escapes.
tricky == <<"a", "\"", "b", "\\", "\n">>

SampleNames == {apple, banana, tricky, EmptyName}
SampleQtys == {-12, 0, 7, 15, 100}
SampleEntries == [item : SampleNames, qty : SampleQtys]

RECURSIVE DictsOfLen(_)
DictsOfLen(n) ==
    IF n = 0 THEN {EmptyDict}
    ELSE {Append(d, e) : d \in DictsOfLen(n - 1),
                         e \in SampleEntries} \ {EmptyDict}

DistinctKeys(d) == \A i, j \in 1..Len(d) : d[i].item = d[j].item => i = j

SampleDicts ==
    {d \in UNION {DictsOfLen(n) : n \in 0..MaxEntries} : DistinctKeys(d)}

\* Texts that are not JSON: an empty file, a truncated object, a bare word,
\* single-quoted keys, text behind the object, a key that is not a string.
InvalidTexts ==
    { << >>,
      <<"{", "\"", "a", "p", "p", "l", "e", "\"", ":", " ", "7", ",">>,
      <<"a", "p", "p", "l", "e", "=", "7">>,
      <<"{", "'", "a", "p", "p", "l", "e", "'", ":", " ", "7", "}">>,
      <<"{", "\"", "a", "p", "p", "l", "e", "\"", ":", " ", "7", "}", " ", "x">>,
      <<"{", "7", ":", " ", "\"", "a", "p", "p", "l", "e", "\"", "}">> }

\* JSON objects this program did not write: compact, and spread out.
ForeignTexts ==
    { <<"{", "\"", "a", "p", "p", "l", "e", "\"", ":", "7", ",", "\"", "b", "a", "n", "a", "n", "a", "\"", ":", "1", "5", "}">>,
      <<" ", "{", "\n", "\t", "\"", "b", "a", "n", "a", "n", "a", "\"", " ", ":", " ", "-", "3", " ", ",", "\n", "\t", "\"", "a", "p", "p", "l", "e", "\"", " ", ":", " ", "1", "0", "\n", "}", "\n">> }

SampleFiles ==
    {NoFile} \cup {File(t) : t \in InvalidTexts \cup ForeignTexts}

InitIO ==
    /\ \/ /\ pc = "start"
          /\ stock_data = EmptyDict
          /\ disk \in SampleFiles
       \/ /\ pc = "session"
          /\ stock_data \in SampleDicts
          /\ disk \in InitialFiles
    /\ call = NoCall
    /\ pre = EmptyDict
    /\ saved = [ok |-> FALSE, data |-> EmptyDict]
    /\ added = [n \in Names |-> Untracked]

NextIO ==
    \/ LoadData
    \/ SaveData
    \/ PrintData

SpecIO == InitIO /\ [][NextIO]_vars

(***************************************************************************)
(* Properties.                                                             *)
(***************************************************************************)
\* C1: every quantity stored in the mapping is > 0: no item is ever stored
\* with a zero or negative quantity.
QuantitiesPositive ==
    \A i \in 1..Len(stock_data) : stock_data[i].qty > 0

\* C2: remove(item, r) on an item stored with quantity q: if r >= q the item
\* is absent afterwards and get_quantity(item) returns 0; if r < q the item is
\* still present with quantity q - r.
RemoveSubtracts ==
    (call.op = "remove" /\ call.qty.isInt /\ Has(pre, call.item)) =>
        LET q == Lookup(pre, call.item)
            r == call.qty.n
        IN  /\ r >= q => /\ ~Has(stock_data, call.item)
                         /\ get_qty(stock_data, call.item) = 0
            /\ r < q => /\ Has(stock_data, call.item)
                        /\ Lookup(stock_data, call.item) = q - r

\* A remove of exactly the stored quantity has deleted the item.
RemoveSubtractsWitness ==
    /\ call.op = "remove" /\ call.qty.isInt /\ Has(pre, call.item)
    /\ call.qty.n = Lookup(pre, call.item)
    /\ call.qty.n > 0
    /\ ~Has(stock_data, call.item)

\* C3: while a name that was absent has only been added to, with non-negative
\* quantities (other names being added to or removed in between),
\* get_quantity(name) is the sum of the quantities added for it.
AddAccumulates ==
    \A n \in Names : added[n].tracking => get_qty(stock_data, n) = added[n].sum

\* Two adds of 2 to apple, with banana in the mapping as well.
AddAccumulatesWitness ==
    /\ call.op = "add" /\ call.item = apple /\ call.qty = IntArg(2)
    /\ added[apple].tracking /\ added[apple].sum = 4
    /\ Has(stock_data, banana)

\* C4: check_low(threshold) returns exactly the names whose stored quantity is
\* strictly less than threshold, each once, in the mapping's insertion order;
\* with no argument the threshold is 5.
CheckLowExact ==
    call.op = "check_low" =>
        LET t == IF call.threshold.given THEN call.threshold.n ELSE 5
            low == call.low
        IN  /\ \A i \in 1..Len(low) : Has(pre, low[i]) /\ Lookup(pre, low[i]) < t
            /\ \A k \in KeySet(pre) :
                  Lookup(pre, k) < t => \E i \in 1..Len(low) : low[i] = k
            /\ \A i, j \in 1..Len(low) :
                  i < j => /\ low[i] # low[j]
                           /\ IndexOf(pre, low[i]) < IndexOf(pre, low[j])

\* The default threshold, an item at 5 left out and two items below 5 listed.
CheckLowExactWitness ==
    /\ call.op = "check_low" /\ ~call.threshold.given
    /\ \E k \in KeySet(pre) : Lookup(pre, k) = 5 /\ \A i \in 1..Len(call.low) : call.low[i] # k
    /\ Len(call.low) = 2

\* C5: save followed by load of the same file returns a mapping with the same
\* keys and the same integer values as the one that was saved (a save that
\* reported an I/O failure has saved nothing).
SaveLoadRoundTrip ==
    (pc = "reloaded" /\ saved.ok) =>
        /\ KeySet(stock_data) = KeySet(saved.data)
        /\ Len(stock_data) = Len(saved.data)
        /\ \A k \in KeySet(saved.data) : Lookup(stock_data, k) = Lookup(saved.data, k)

\* {"apple": 7, "banana": 15} saved and loaded again.
SaveLoadRoundTripWitness ==
    /\ pc = "reloaded" /\ saved.ok
    /\ saved.data = <<[item |-> apple, qty |-> 7], [item |-> banana, qty |-> 15]>>
    /\ stock_data = saved.data

\* C6: remove(item, qty) on an item that is not a key leaves the mapping
\* unchanged and returns normally, whatever qty is.
RemoveAbsentNoOp ==
    (call.op = "remove" /\ ~Has(pre, call.item)) =>
        /\ stock_data = pre
        /\ call.raised = "none"

\* A remove of a missing item, from a mapping that holds others.
RemoveAbsentNoOpWitness ==
    /\ call.op = "remove" /\ call.item = banana /\ ~Has(pre, banana)
    /\ Has(pre, apple)
    /\ call.qty = IntArg(1)

\* C7 as stated: remove(item, qty) with a qty that cannot be subtracted
\* raises a type error to the caller, is never handled as the not-found case,
\* and leaves the mapping unchanged.
RemoveBadQtyRaises ==
    (call.op = "remove" /\ ~call.qty.isInt) =>
        /\ call.raised = "TypeError"
        /\ call.printed = ""
        /\ stock_data = pre

\* C7 as amended: remove(item, qty) on an item that is a key of the mapping,
\* with a qty that cannot be subtracted, raises a type error to the caller,
\* prints no not-found warning and leaves the mapping unchanged.
RemoveBadQtyRaisesWhenPresent ==
    (call.op = "remove" /\ ~call.qty.isInt /\ Has(pre, call.item)) =>
        /\ call.raised = "TypeError"
        /\ call.printed = ""
        /\ stock_data = pre

\* A remove of a stored item with the str qty.
RemoveBadQtyWitness ==
    /\ call.op = "remove" /\ ~call.qty.isInt /\ Has(pre, call.item)
    /\ call.raised = "TypeError"

\* C8: load returns an empty mapping and raises nothing both when there is no
\* file and when the file holds text that is not JSON.
LoadFallsBackToEmpty ==
    (call.op = "load" /\ (~disk.exists \/ disk.text \in InvalidTexts)) =>
        /\ stock_data = EmptyDict
        /\ call.raised = "none"

\* A load of a file holding a truncated object.
LoadFallsBackWitness ==
    /\ call.op = "load" /\ disk.exists
    /\ disk.text \in InvalidTexts /\ disk.text # << >>
    /\ stock_data = EmptyDict

\* C9: add("", qty) leaves the mapping unchanged, whatever qty is.
AddEmptyNameNoOp ==
    (call.op = "add" /\ call.item = EmptyName) => stock_data = pre

\* An add of the empty name with quantity 2, to a mapping that holds items.
AddEmptyNameWitness ==
    /\ call.op = "add" /\ call.item = EmptyName /\ call.qty = IntArg(2)
    /\ Len(pre) >= 2
    /\ stock_data = pre

\* The entries of d other than item's, in order.
Others(d, item) ==
    LET Other(e) == e.item # item
    IN  SelectSeq(d, Other)

\* C10: add and remove change at most the entry of the named item: every
\* other key stays or stays away, keeps its quantity, and the other keys keep
\* their relative order; get_quantity, check_low, save and report leave the
\* mapping as it is.
OnlyNamedItemChanges ==
    /\ call.op \in {"add", "remove"} =>
          Others(stock_data, call.item) = Others(pre, call.item)
    /\ call.op \in {"get", "check_low", "save", "print"} => stock_data = pre

\* The middle one of three items removed: the two others are left, in order.
OnlyNamedItemChangesWitness ==
    /\ call.op = "remove" /\ Len(pre) = 3 /\ pre[2].item = call.item
    /\ Len(stock_data) = 2
    /\ Keys(stock_data) = <<pre[1].item, pre[3].item>>

====
